---------------------------- MODULE Spec2Model ----------------------------
(***************************************************************************)
(* Model of apps/macos/unbound-macos/Services/Daemon/shm_helpers.{c,h}:    *)
(* the two fixed-arity wrappers shm_open_wrapper and shm_unlink_wrapper    *)
(* over the platform's POSIX shared-memory calls.                          *)
(*                                                                         *)
(* The wrappers are modelled from the source.  The platform they forward   *)
(* to (shm_open, shm_unlink, close, the namespace, the descriptor tables)  *)
(* is not code of the repository; it is modelled from the contract the     *)
(* specification states for it (section 4.1 and section 7): the error      *)
(* classes invalid-name, resource-exhausted, already-exists,               *)
(* permission-denied and not-found, checked in that order, which is the    *)
(* order of the macOS kernel (name copy-in, descriptor allocation, then    *)
(* the namespace lookup).                                                  *)
(***************************************************************************)
EXTENDS Integers, Sequences, FiniteSets

\* ------------------------------------------------------------- bounds

\* Descriptors one process may hold (stands for RLIMIT_NOFILE).
FdLimit == 1

\* Two processes that know the names (the shim serialises nothing).
Procs == {"p1", "p2"}

\* The process whose calls Spec follows through the whole input range.
Callers == {"p1"}

\* ---------------------------------------------- platform constants

\* <fcntl.h> open flags, macOS values.
O_RDONLY == 0
O_RDWR == 2
O_CREAT == 512
O_EXCL == 2048

\* <sys/stat.h> owner permission bits of mode_t.
S_IRUSR == 256
S_IWUSR == 128

\* ------------------------------------------------------------- inputs

\* Names are sequences of characters.  Two well-formed names, the empty
\* name and a name with an embedded "/" after the leading one.
Names ==
  { <<>>, <<"/", "a">>, <<"/", "b">>, <<"/", "a", "/", "b">> }

\* The platform's naming rule: a leading "/", at least one more character,
\* and no further "/".
NameValid(name) ==
  /\ Len(name) >= 2
  /\ name[1] = "/"
  /\ \A i \in 2..Len(name) : name[i] # "/"

ValidNames == { n \in Names : NameValid(n) }

\* The (oflag, mode) pairs callers pass; mode matters only with O_CREAT.
OpenArgs ==
  { <<O_RDONLY, 0>>, <<O_RDWR, 0>>,
    <<O_CREAT + O_RDWR, S_IRUSR + S_IWUSR>>, <<O_CREAT + O_RDWR, S_IRUSR>>,
    <<O_CREAT + O_EXCL, S_IRUSR + S_IWUSR>>,
    <<O_CREAT + O_EXCL + O_RDWR, S_IRUSR + S_IWUSR>> }

\* bit is a power of two: whether it is set in the bitmask oflag.
HasFlag(oflag, bit) == (oflag \div bit) % 2 = 1

Fds == 0..(FdLimit - 1)

\* Object identities; 0 is "no object".
ObjIds == 1..(Cardinality(ValidNames) + Cardinality(Procs) * FdLimit)

Absent == [id |-> 0, mode |-> 0]
NoCall == [op |-> "none", name |-> <<>>, oflag |-> 0, mode |-> 0]
NoLast ==
  [proc |-> "none", op |-> "none", name |-> <<>>, oflag |-> 0, mode |-> 0,
   ret |-> 0, err |-> "none"]
NoRace ==
  [active |-> FALSE, name |-> <<>>, procs |-> {}, room |-> FALSE,
   won |-> {}, lost |-> {}]

VARIABLES
  ns,      \* the shared-memory namespace: valid name -> [id, mode], Absent if none
  fds,     \* process -> descriptor -> object id, 0 if the slot is free
  last,    \* the wrapper call that returned in the step into this state: its
           \* caller, arguments, return value and, on failure, error indicator
  pc,      \* process -> "idle" | "shm_open_wrapper" | "shm_unlink_wrapper"
  call,    \* process -> the arguments of the wrapper call it is inside
  gone,    \* history: names unlinked successfully and not created since
  race     \* history: the concurrent exclusive creation under observation

vars == <<ns, fds, last, pc, call, gone, race>>

\* ----------------------------------------------------------- platform

Min(S) == CHOOSE x \in S : \A y \in S : x <= y

HasRoom(p) == \E d \in Fds : fds[p][d] = 0

\* Whether object id is alive: a name or a descriptor refers to it.
Referenced(id) ==
  \/ \E n \in ValidNames : ns[n].id = id
  \/ \E q \in Procs, d \in Fds : fds[q][d] = id

\* The outcome of a platform call: return value, error indicator (set on
\* failure only), and the namespace and descriptor tables after it.
Outcome(r, e, n, f) == [ret |-> r, err |-> e, ns |-> n, fds |-> f]

Fail(e) == Outcome(-1, e, ns, fds)

\* Owner access check of an open against the object's permission bits.
AccessOk(oflag, m) ==
  /\ HasFlag(m, S_IRUSR)
  /\ (HasFlag(oflag, O_RDWR) => HasFlag(m, S_IWUSR))

\* shm_open(name, oflag, mode) called by process p.
shm_open(p, name, oflag, mode) ==
  IF ~NameValid(name) THEN Fail("EINVAL")
  ELSE IF ~HasRoom(p) THEN Fail("EMFILE")
  ELSE
    LET fd == Min({ d \in Fds : fds[p][d] = 0 }) IN
    IF ns[name].id # 0
    THEN IF HasFlag(oflag, O_CREAT) /\ HasFlag(oflag, O_EXCL) THEN Fail("EEXIST")
         ELSE IF ~AccessOk(oflag, ns[name].mode) THEN Fail("EACCES")
         ELSE Outcome(fd, "none", ns, [fds EXCEPT ![p][fd] = ns[name].id])
    ELSE IF ~HasFlag(oflag, O_CREAT) THEN Fail("ENOENT")
         ELSE
           LET id == Min({ i \in ObjIds : ~Referenced(i) }) IN
           Outcome(fd, "none",
                   [ns EXCEPT ![name] = [id |-> id, mode |-> mode]],
                   [fds EXCEPT ![p][fd] = id])

\* shm_unlink(name) called by process p: the name goes; the object lives on
\* while a descriptor refers to it.
shm_unlink(p, name) ==
  IF ~NameValid(name) THEN Fail("EINVAL")
  ELSE IF ns[name].id = 0 THEN Fail("ENOENT")
  ELSE Outcome(0, "none", [ns EXCEPT ![name] = Absent], fds)

\* ----------------------------------------------------------- the shim

\* Faulty variants of the wrappers, each a slip the two one-line bodies
\* could contain; each breaks one of the properties stated below.

\* The mode is not forwarded to the variadic call.
open_drops_mode(p, name, oflag, mode) == shm_open(p, name, oflag, 0)

\* Only the access-mode bits of oflag are forwarded.
open_access_bits_only(p, name, oflag, mode) == shm_open(p, name, oflag % 4, mode)

\* O_EXCL is cleared before forwarding.
open_clears_excl(p, name, oflag, mode) ==
  shm_open(p, name, IF HasFlag(oflag, O_EXCL) THEN oflag - O_EXCL ELSE oflag, mode)

\* O_CREAT is always set.
open_always_creates(p, name, oflag, mode) ==
  shm_open(p, name, IF HasFlag(oflag, O_CREAT) THEN oflag ELSE oflag + O_CREAT, mode)

\* The name is copied into a two-character buffer before forwarding.
open_truncates_name(p, name, oflag, mode) ==
  shm_open(p, IF Len(name) > 2 THEN SubSeq(name, 1, 2) ELSE name, oflag, mode)

\* An already-exists failure is retried without O_EXCL.
open_retries_eexist(p, name, oflag, mode) ==
  LET r == shm_open(p, name, oflag, mode) IN
  IF r.ret = -1 /\ r.err = "EEXIST" THEN shm_open(p, name, oflag - O_EXCL, mode) ELSE r

\* An already-exists failure removes the name before reporting the failure.
open_unlinks_on_eexist(p, name, oflag, mode) ==
  LET r == shm_open(p, name, oflag, mode) IN
  IF r.ret = -1 /\ r.err = "EEXIST"
  THEN Outcome(-1, "EEXIST", [ns EXCEPT ![name] = Absent], fds)
  ELSE r

\* shm_unlink is not called; success is reported.
unlink_does_nothing(p, name) == Outcome(0, "none", ns, fds)

\* A not-found failure is reported as success.
unlink_hides_enoent(p, name) ==
  LET r == shm_unlink(p, name) IN
  IF r.ret = -1 /\ r.err = "ENOENT" THEN Outcome(0, "none", ns, fds) ELSE r

\* The caller's descriptors on the object are closed along with the unlink.
unlink_closes_descriptors(p, name) ==
  LET r == shm_unlink(p, name) IN
  IF r.ret = 0
  THEN [r EXCEPT !.fds = [fds EXCEPT ![p] =
          [d \in Fds |-> IF fds[p][d] = ns[name].id THEN 0 ELSE fds[p][d]]]]
  ELSE r

\* shm_helpers.c:4-6   return shm_open(name, oflag, mode);
shm_open_wrapper(p, name, oflag, mode) == shm_open(p, name, oflag, mode)

\* shm_helpers.c:8-10  return shm_unlink(name);
shm_unlink_wrapper(p, name) == shm_unlink(p, name)

\* ------------------------------------------------------------ history

ExclCreate(c) ==
  c.op = "open" /\ HasFlag(c.oflag, O_CREAT) /\ HasFlag(c.oflag, O_EXCL)

\* The race observed after process p enters a call c: every call in flight on
\* c.name is an exclusive create, there are at least two, and the name is
\* absent.  A finished racer calling again, or any other call on the raced
\* name, ends the observation.
RaceAfter(p, c, pcs, calls) ==
  LET R == { q \in Procs : pcs[q] # "idle" /\ calls[q].name = c.name } IN
  IF /\ NameValid(c.name)
     /\ ns[c.name].id = 0
     /\ Cardinality(R) >= 2
     /\ \A q \in R : ExclCreate(calls[q])
  THEN [active |-> TRUE, name |-> c.name, procs |-> R,
        room |-> \A q \in R : HasRoom(q), won |-> {}, lost |-> {}]
  ELSE IF race.active /\ (p \in race.procs \/ c.name = race.name)
  THEN NoRace
  ELSE race

\* The observation after racer p's call came back with outcome r.
RaceReturn(p, r) ==
  IF race.active /\ p \in race.procs
  THEN IF r.ret >= 0 THEN [race EXCEPT !.won = @ \cup {p}]
       ELSE IF r.err = "EEXIST" THEN [race EXCEPT !.lost = @ \cup {p}]
       ELSE race
  ELSE race

\* ------------------------------------------------------------ actions

Init ==
  /\ ns = [n \in ValidNames |-> Absent]
  /\ fds = [p \in Procs |-> [d \in Fds |-> 0]]
  /\ last = NoLast
  /\ pc = [p \in Procs |-> "idle"]
  /\ call = [p \in Procs |-> NoCall]
  /\ gone = {}
  /\ race = NoRace

\* What the body of shm_open_wrapper does to the platform and hands back.
OpenEffect(p, name, oflag, mode) ==
  LET r == shm_open_wrapper(p, name, oflag, mode) IN
  /\ ns' = r.ns
  /\ fds' = r.fds
  /\ last' = [proc |-> p, op |-> "open", name |-> name, oflag |-> oflag,
              mode |-> mode, ret |-> r.ret, err |-> r.err]
  /\ gone' = IF r.ret >= 0 /\ HasFlag(oflag, O_CREAT) THEN gone \ {name} ELSE gone
  /\ race' = RaceReturn(p, r)

\* What the body of shm_unlink_wrapper does to the platform and hands back.
UnlinkEffect(p, name) ==
  LET r == shm_unlink_wrapper(p, name) IN
  /\ ns' = r.ns
  /\ fds' = r.fds
  /\ last' = [proc |-> p, op |-> "unlink", name |-> name, oflag |-> 0,
              mode |-> 0, ret |-> r.ret, err |-> r.err]
  /\ gone' = IF r.ret = 0 THEN gone \cup {name} ELSE gone
  /\ race' = RaceReturn(p, r)

\* A whole call of shm_open_wrapper(name, oflag, mode) by process p.
Open(p, name, oflag, mode) ==
  /\ pc[p] = "idle"
  /\ OpenEffect(p, name, oflag, mode)
  /\ UNCHANGED <<pc, call>>

\* A whole call of shm_unlink_wrapper(name) by process p.
Unlink(p, name) ==
  /\ pc[p] = "idle"
  /\ UnlinkEffect(p, name)
  /\ UNCHANGED <<pc, call>>

\* The holder of descriptor d releases it (close(2) by the caller, never by
\* the shim).  An unlinked object dies with its last descriptor.  No wrapper
\* call returns in this step.
Close(p, d) ==
  /\ pc[p] = "idle"
  /\ fds[p][d] # 0
  /\ fds' = [fds EXCEPT ![p][d] = 0]
  /\ last' = NoLast
  /\ UNCHANGED <<ns, pc, call, gone, race>>

\* One caller, every input, each call in one step.
Next ==
  \/ \E p \in Callers, name \in Names, a \in OpenArgs : Open(p, name, a[1], a[2])
  \/ \E p \in Callers, name \in Names : Unlink(p, name)
  \/ \E p \in Callers, d \in Fds : Close(p, d)

Spec == Init /\ [][Next]_vars

\* ------------------------------------------- overlapping calls

\* The inputs of the overlapping calls: one name, created exclusively,
\* opened and unlinked.
RaceNames == { <<"/", "a">> }

RaceArgs == { <<O_RDWR, 0>>, <<O_CREAT + O_EXCL, S_IRUSR + S_IWUSR>> }

\* Process p enters shm_open_wrapper(name, oflag, mode).
CallOpen(p, name, oflag, mode) ==
  /\ pc[p] = "idle"
  /\ LET c == [op |-> "open", name |-> name, oflag |-> oflag, mode |-> mode]
         pcs == [pc EXCEPT ![p] = "shm_open_wrapper"]
         calls == [call EXCEPT ![p] = c]
     IN /\ pc' = pcs
        /\ call' = calls
        /\ race' = RaceAfter(p, c, pcs, calls)
  /\ last' = NoLast
  /\ UNCHANGED <<ns, fds, gone>>

\* The body of shm_open_wrapper runs and returns to p.
ReturnOpen(p) ==
  /\ pc[p] = "shm_open_wrapper"
  /\ OpenEffect(p, call[p].name, call[p].oflag, call[p].mode)
  /\ pc' = [pc EXCEPT ![p] = "idle"]
  /\ call' = [call EXCEPT ![p] = NoCall]

\* Process p enters shm_unlink_wrapper(name).
CallUnlink(p, name) ==
  /\ pc[p] = "idle"
  /\ LET c == [op |-> "unlink", name |-> name, oflag |-> 0, mode |-> 0]
         pcs == [pc EXCEPT ![p] = "shm_unlink_wrapper"]
         calls == [call EXCEPT ![p] = c]
     IN /\ pc' = pcs
        /\ call' = calls
        /\ race' = RaceAfter(p, c, pcs, calls)
  /\ last' = NoLast
  /\ UNCHANGED <<ns, fds, gone>>

\* The body of shm_unlink_wrapper runs and returns to p.
ReturnUnlink(p) ==
  /\ pc[p] = "shm_unlink_wrapper"
  /\ UnlinkEffect(p, call[p].name)
  /\ pc' = [pc EXCEPT ![p] = "idle"]
  /\ call' = [call EXCEPT ![p] = NoCall]

\* Every process, calls entered and returned in separate steps.
NextRace ==
  \/ \E p \in Procs, name \in RaceNames, a \in RaceArgs : CallOpen(p, name, a[1], a[2])
  \/ \E p \in Procs : ReturnOpen(p)
  \/ \E p \in Procs, name \in RaceNames : CallUnlink(p, name)
  \/ \E p \in Procs : ReturnUnlink(p)
  \/ \E p \in Procs, d \in Fds : Close(p, d)

SpecRace == Init /\ [][NextRace]_vars

\* ---------------------------------------------------------- properties

\* A step in which a wrapper call returned; last' is that call.
Returned == last'.op # "none"

ReturnedOpen == last'.op = "open"

ReturnedUnlink == last'.op = "unlink"

\* Whether the name is well formed and present in the namespace before the step.
Present(name) == NameValid(name) /\ ns[name].id # 0

\* Whether the name is well formed and absent from the namespace before the step.
Missing(name) == NameValid(name) /\ ns[name].id = 0

\* C1: a wrapper call returns exactly what the direct platform call on the
\* same arguments returns from the same state (return value and, on failure,
\* error indicator), and leaves the namespace and the descriptor tables as
\* the direct call leaves them.
C1_PassThrough ==
  [][Returned =>
       LET c == last'
           d == IF c.op = "open"
                THEN shm_open(c.proc, c.name, c.oflag, c.mode)
                ELSE shm_unlink(c.proc, c.name)
       IN /\ c.ret = d.ret
          /\ c.err = d.err
          /\ ns' = d.ns
          /\ fds' = d.fds]_vars

\* C1 witness: a creating open has returned a descriptor, leaving an object
\* with the mode that was passed.
C1_Witness ==
  /\ last.op = "open"
  /\ last.ret >= 0
  /\ last.mode = S_IRUSR
  /\ ns[last.name].mode = S_IRUSR

C7_BadNameIsEinval ==
  [][(ReturnedOpen /\ ~NameValid(last'.name))
       => (last'.ret = -1 /\ last'.err = "EINVAL")]_vars

\* C7 witness: a creating open of the name with an embedded "/" has failed
\* with EINVAL while its two-character prefix is absent and the caller has a
\* free descriptor slot.
C7_Witness ==
  /\ last.op = "open"
  /\ Len(last.name) > 2
  /\ HasFlag(last.oflag, O_CREAT)
  /\ last.ret = -1
  /\ last.err = "EINVAL"
  /\ ns[SubSeq(last.name, 1, 2)].id = 0
  /\ HasRoom(last.proc)

\* C8: a wrapper call closes no descriptor and redirects none: every
\* descriptor open before the call is open on the same object after it, and
\* an object a call creates takes the identity of no object still open.
C8_DescriptorsSurvive ==
  [][Returned =>
       /\ \A p \in Procs, d \in Fds :
            fds[p][d] # 0 => fds'[p][d] = fds[p][d]
       /\ \A n \in ValidNames :
            (ns'[n].id # ns[n].id) =>
              (\A p \in Procs, d \in Fds : fds[p][d] = 0 \/ fds[p][d] # ns'[n].id)]_vars

\* C8 witness: an unlink has succeeded and both its caller and another
\* process still hold a descriptor on the object, which no name refers to.
C8_Witness ==
  /\ last.op = "unlink"
  /\ last.ret = 0
  /\ \E p \in Procs \ {last.proc}, d, e \in Fds :
       /\ fds[p][d] # 0
       /\ fds[last.proc][e] = fds[p][d]
       /\ \A m \in ValidNames : ns[m].id # fds[p][d]

\* Every racer is back from its call.
RaceOver == race.active /\ \A p \in race.procs : pc[p] = "idle"

C10_Frame ==
  [][Returned =>
       /\ (last'.ret = -1 => (ns' = ns /\ fds' = fds))
       /\ \A n \in ValidNames : n # last'.name => ns'[n] = ns[n]]_vars

\* C10 witness: an exclusive create has failed while its name is present and
\* the caller holds a descriptor.
C10_Witness ==
  /\ last.op = "open"
  /\ HasFlag(last.oflag, O_EXCL)
  /\ last.ret = -1
  /\ NameValid(last.name)
  /\ ns[last.name].id # 0
  /\ \E d \in Fds : fds[last.proc][d] # 0

=============================================================================
